---- MODULE Spec2Model ----
(***************************************************************************)
(* Model of GPGMeWrapper (src/GPGMeWrapper.cpp, src/GPGMeWrapper.hpp):     *)
(* key discovery (listKeys, loadKeys), key preference (isPreferredKey)     *)
(* and the encrypt / decrypt calls against the GpgME++ backend.            *)
(*                                                                         *)
(* A QString is a sequence of Unicode code points; a QByteArray, a C       *)
(* string and a GpgME::Data buffer are sequences of bytes (0..255).        *)
(* Every method is one action; the backend calls a method issues are       *)
(* recorded, in order, in the variable events.  The cursor                 *)
(* m_selectedKeyIndex is read and written by its two accessors only and    *)
(* is left out.                                                            *)
(***************************************************************************)
EXTENDS Integers, Sequences, FiniteSets, TLC

(***************************************************************************)
(* Bounds of the model.                                                    *)
(***************************************************************************)
MaxLen == 1        \* longest input text, in code points
MaxRing == 2       \* most keys in the backend's key ring

(***************************************************************************)
(* QString / QByteArray conversions.                                       *)
(***************************************************************************)
\* 'a', U+00E9 (2 UTF-8 bytes), U+1F600 (4 UTF-8 bytes, 2 UTF-16 code units)
Alphabet == {97, 233, 128512}

RECURSIVE SeqsUpTo(_, _)
SeqsUpTo(S, n) ==
  IF n = 0 THEN {<<>>}
  ELSE LET shorter == SeqsUpTo(S, n - 1)
       IN shorter \cup {Append(s, c) : s \in {t \in shorter : Len(t) = n - 1}, c \in S}

Texts == SeqsUpTo(Alphabet, MaxLen)

\* UTF-16 code units of one code point
Utf16Units(cp) == IF cp >= 65536 THEN 2 ELSE 1

\* QString::size(): the number of UTF-16 code units of the string
RECURSIVE size(_)
size(s) == IF s = <<>> THEN 0 ELSE Utf16Units(Head(s)) + size(Tail(s))

\* UTF-8 encoding of one code point
Utf8Char(cp) ==
  IF cp < 128 THEN <<cp>>
  ELSE IF cp < 2048 THEN <<192 + (cp \div 64), 128 + (cp % 64)>>
  ELSE IF cp < 65536
    THEN <<224 + (cp \div 4096), 128 + ((cp \div 64) % 64), 128 + (cp % 64)>>
  ELSE <<240 + (cp \div 262144), 128 + ((cp \div 4096) % 64),
         128 + ((cp \div 64) % 64), 128 + (cp % 64)>>

\* QString::toUtf8()
RECURSIVE toUtf8(_)
toUtf8(s) == IF s = <<>> THEN <<>> ELSE Utf8Char(Head(s)) \o toUtf8(Tail(s))

\* length of the UTF-8 sequence a lead byte announces, 0 for an invalid lead
Utf8SeqLen(b) ==
  IF b < 128 THEN 1
  ELSE IF b >= 192 /\ b < 224 THEN 2
  ELSE IF b >= 224 /\ b < 240 THEN 3
  ELSE IF b >= 240 /\ b < 248 THEN 4
  ELSE 0

IsContinuation(b) == b >= 128 /\ b < 192

\* U+FFFD, emitted for every byte that is not part of a complete sequence
ReplacementCharacter == 65533

RECURSIVE fromUtf8At(_, _)
fromUtf8At(b, i) ==
  IF i > Len(b) THEN <<>>
  ELSE LET n == Utf8SeqLen(b[i])
           complete == /\ n > 0
                       /\ i + n - 1 <= Len(b)
                       /\ \A j \in (i + 1)..(i + n - 1) : IsContinuation(b[j])
       IN IF ~complete THEN <<ReplacementCharacter>> \o fromUtf8At(b, i + 1)
          ELSE LET cp == IF n = 1 THEN b[i]
                         ELSE IF n = 2 THEN (b[i] - 192) * 64 + (b[i + 1] - 128)
                         ELSE IF n = 3
                           THEN (b[i] - 224) * 4096 + (b[i + 1] - 128) * 64
                                + (b[i + 2] - 128)
                         ELSE (b[i] - 240) * 262144 + (b[i + 1] - 128) * 4096
                              + (b[i + 2] - 128) * 64 + (b[i + 3] - 128)
               IN <<cp>> \o fromUtf8At(b, i + n)

\* QString::fromStdString(std::string) and QString(const char *)
fromStdString(b) == fromUtf8At(b, 1)

\* GpgME::Data(buffer, size): the first size bytes of the buffer
Data(buffer, length) ==
  SubSeq(buffer, 1, IF length <= Len(buffer) THEN length ELSE Len(buffer))

\* QString::contains(str), case sensitive
contains(s, str) ==
  \E i \in 1..(Len(s) + 1) :
    /\ i + Len(str) - 1 <= Len(s)
    /\ SubSeq(s, i, i + Len(str) - 1) = str

(***************************************************************************)
(* Message literals of GPGMeWrapper.cpp, as code points.                   *)
(***************************************************************************)
\* "Error! No keys found..."
MsgNoKeysFound ==
  <<69, 114, 114, 111, 114, 33, 32, 78, 111, 32, 107, 101, 121, 115, 32, 102,
    111, 117, 110, 100, 46, 46, 46>>
\* "Error finding key: "
MsgErrorFindingKey ==
  <<69, 114, 114, 111, 114, 32, 102, 105, 110, 100, 105, 110, 103, 32, 107,
    101, 121, 58, 32>>
\* "ERROR in syymetric encryption: "
MsgSymmetricError ==
  <<69, 82, 82, 79, 82, 32, 105, 110, 32, 115, 121, 121, 109, 101, 116, 114,
    105, 99, 32, 101, 110, 99, 114, 121, 112, 116, 105, 111, 110, 58, 32>>
\* "Encryption Failed: "
MsgEncryptionFailed ==
  <<69, 110, 99, 114, 121, 112, 116, 105, 111, 110, 32, 70, 97, 105, 108, 101,
    100, 58, 32>>

(***************************************************************************)
(* The GpgME++ backend, as the wrapper sees it.                            *)
(***************************************************************************)
\* Error codes a backend call can return; 0 is "no error".
ErrNone == 0
ErrGeneral == 1
ErrNoPubKey == 9
ErrNoSecKey == 17
ErrNoData == 58
ErrEOF == 16383

\* GpgME::Error::asString(), as bytes
asString(code) ==
  CASE code = ErrGeneral ->
         <<71, 101, 110, 101, 114, 97, 108, 32, 101, 114, 114, 111, 114>>
    [] code = ErrNoPubKey ->
         <<78, 111, 32, 112, 117, 98, 108, 105, 99, 32, 107, 101, 121>>
    [] code = ErrNoSecKey ->
         <<78, 111, 32, 115, 101, 99, 114, 101, 116, 32, 107, 101, 121>>
    [] code = ErrNoData -> <<78, 111, 32, 100, 97, 116, 97>>
    [] code = ErrEOF -> <<69, 110, 100, 32, 111, 102, 32, 102, 105, 108, 101>>
    [] OTHER -> <<83, 117, 99, 99, 101, 115, 115>>

\* Fingerprints and mail addresses, as bytes: "F1", "F2", "a@b", "c@b"
FprF1 == <<70, 49>>
FprF2 == <<70, 50>>
MailAB == <<97, 64, 98>>
MailCB == <<99, 64, 98>>

\* The keys a key ring can hold.  The second key carries the fingerprint of
\* the first one, the third key has no user id.
KeyUniverse ==
  << [fpr |-> FprF1, mails |-> <<MailAB>>],
     [fpr |-> FprF1, mails |-> <<MailCB, MailAB>>],
     [fpr |-> FprF2, mails |-> <<>>] >>

Keys == {KeyUniverse[i] : i \in DOMAIN KeyUniverse}

KeyRings ==
  {r \in SeqsUpTo(Keys, MaxRing) : \A i, j \in DOMAIN r : i # j => r[i] # r[j]}

KeyIndex(key) == CHOOSE i \in DOMAIN KeyUniverse : KeyUniverse[i] = key

\* the backend's pattern match of a key listing: the empty pattern selects
\* every key, another one the keys it is a part of a user id or fingerprint of
KeyMatches(key, pattern) ==
  \/ pattern = <<>>
  \/ contains(key.fpr, pattern)
  \/ \E i \in DOMAIN key.mails : contains(key.mails[i], pattern)

RECURSIVE SelectKeys(_, _)
SelectKeys(ring, pattern) ==
  IF ring = <<>> THEN <<>>
  ELSE (IF KeyMatches(Head(ring), pattern) THEN <<Head(ring)>> ELSE <<>>)
       \o SelectKeys(Tail(ring), pattern)

\* What a listing does: startErr is the code startKeyListing returns, errAt
\* the nextKey call (counted from 1) that reports an error instead of a key;
\* errAt = 0 is a listing without error.
NoListingFault == [startErr |-> ErrNone, errAt |-> 0]
ListingFaults ==
  {[startErr |-> ErrGeneral, errAt |-> 0]}
  \cup {[startErr |-> ErrNone, errAt |-> n] : n \in 0..MaxRing}

\* The result stream of a started listing: the matching keys in key-ring
\* order, cut at the first error, then the signal that ends it.
Stream(ring, pattern, fault) ==
  LET matched == SelectKeys(ring, pattern)
      cut == fault.errAt >= 1 /\ fault.errAt <= Len(matched)
      delivered == IF cut THEN SubSeq(matched, 1, fault.errAt - 1) ELSE matched
  IN [i \in 1..(Len(delivered) + 1) |->
        IF i <= Len(delivered) THEN [code |-> ErrNone, key |-> delivered[i]]
        ELSE [code |-> IF cut THEN ErrGeneral ELSE ErrEOF, key |-> <<>>]]

\* Context::key(fingerprint, err, false): the code of the lookup
LookupError(ring, fingerprint) ==
  IF Cardinality({i \in DOMAIN ring : ring[i].fpr = fingerprint}) = 1
  THEN ErrNone ELSE ErrEOF

\* ASCII armor of a message: one character for the recipient ('0' when the
\* message has none), then two characters 'A'..'P' for every byte.
RECURSIVE ArmorBody(_)
ArmorBody(bytes) ==
  IF bytes = <<>> THEN <<>>
  ELSE <<65 + (Head(bytes) \div 16), 65 + (Head(bytes) % 16)>>
       \o ArmorBody(Tail(bytes))

Armor(recipients, bytes) ==
  <<48 + (IF recipients = <<>> THEN 0 ELSE KeyIndex(recipients[1]))>>
  \o ArmorBody(bytes)

IsArmor(c) ==
  /\ Len(c) >= 1
  /\ Len(c) % 2 = 1
  /\ c[1] >= 48 /\ c[1] <= 48 + Len(KeyUniverse)
  /\ \A i \in 2..Len(c) : c[i] >= 65 /\ c[i] < 81

RECURSIVE DearmorBody(_)
DearmorBody(c) ==
  IF c = <<>> THEN <<>>
  ELSE <<(c[1] - 65) * 16 + (c[2] - 65)>> \o DearmorBody(SubSeq(c, 3, Len(c)))

\* Context::decrypt: the code and the content of the output buffer.  fault
\* is an error of the backend's own (a wrong passphrase, ...), which leaves
\* the output buffer partially filled.
BackendDecrypt(ring, cipher, fault) ==
  IF ~IsArmor(cipher) THEN [code |-> ErrNoData, out |-> <<>>]
  ELSE IF cipher[1] > 48 /\ \A i \in DOMAIN ring : ring[i] # KeyUniverse[cipher[1] - 48]
    THEN [code |-> ErrNoSecKey, out |-> <<>>]
  ELSE LET plain == DearmorBody(Tail(cipher))
       IN IF fault # ErrNone
          THEN [code |-> fault, out |-> SubSeq(plain, 1, (Len(plain) + 1) \div 2)]
          ELSE [code |-> ErrNone, out |-> plain]

\* Context::encrypt and Context::encryptSymmetrically
BackendEncrypt(recipients, plain, fault) ==
  IF fault # ErrNone THEN [code |-> fault, out |-> <<>>]
  ELSE [code |-> ErrNone, out |-> Armor(recipients, plain)]

\* One backend call, as recorded in events
Ev(op, ses, arg) == [op |-> op, ses |-> ses, arg |-> arg]

(***************************************************************************)
(* GPGMeWrapper.                                                           *)
(***************************************************************************)
\* GPGOperationResult, as default-constructed
GPGOperationResult ==
  [resultString |-> <<>>, keyFound |-> FALSE, decryptionSuccess |-> FALSE,
   errorMessage |-> <<>>]

\* GPGKeyDetails::loadFromGPGMeKey: the fingerprint and the mail addresses
\* of a key
loadFromGPGMeKey(key) ==
  [fingerPrint |-> fromStdString(key.fpr),
   mailAdresses |-> [i \in DOMAIN key.mails |-> fromStdString(key.mails[i])]]

\* GPGKeyDetails::mailAdresses()
mailAdresses(d) == d.mailAdresses

\* DrainLoop, dropping the keys collected when the stream ends in an error
\* other than end-of-results
RECURSIVE DrainLoop_dropOnError(_, _, _, _, _)
DrainLoop_dropOnError(stream, i, keys, events, ses) ==
  LET item == stream[i]
      logged == Append(events, Ev("nextKey", ses, item.code))
  IN IF item.code # ErrNone
     THEN [keys |-> IF item.code = ErrEOF THEN keys ELSE <<>>, events |-> logged]
     ELSE DrainLoop_dropOnError(stream, i + 1, Append(keys, item.key), logged, ses)

\* The loop of listKeys: reads the stream from item i on until an item
\* carries an error code.
RECURSIVE DrainLoop(_, _, _, _, _)
DrainLoop(stream, i, keys, events, ses) ==
  LET item == stream[i]
      logged == Append(events, Ev("nextKey", ses, item.code))
  IN IF item.code # ErrNone THEN [keys |-> keys, events |-> logged]
     ELSE DrainLoop(stream, i + 1, Append(keys, item.key), logged, ses)

\* listKeys, keeping its session when the listing fails to start
listKeys_keepSession(ring, searchPattern_, fault, ses) ==
  LET pattern == toUtf8(searchPattern_)
      started == <<Ev("createForProtocol", ses, <<>>),
                   Ev("startKeyListing", ses, pattern)>>
      closed(r) == [keys |-> r.keys,
                    events |-> Append(r.events, Ev("release", ses, <<>>))]
  IN IF fault.startErr # ErrNone
     THEN [keys |-> <<>>, events |-> started]
     ELSE closed(DrainLoop(Stream(ring, pattern, fault), 1, <<>>, started, ses))

\* GPGMeWrapper::listKeys: the keys returned and the backend calls made
listKeys(ring, searchPattern_, fault, ses) ==
  LET pattern == toUtf8(searchPattern_)
      started == <<Ev("createForProtocol", ses, <<>>),
                   Ev("startKeyListing", ses, pattern)>>
      closed(r) == [keys |-> r.keys,
                    events |-> Append(r.events, Ev("release", ses, <<>>))]
  IN IF fault.startErr # ErrNone
     THEN closed([keys |-> <<>>, events |-> started])
     ELSE closed(DrainLoop(Stream(ring, pattern, fault), 1, <<>>, started, ses))

\* loadKeys without m_keys.clear()
loadKeys_noClear(old, ring, searchPattern_, fault, ses) ==
  LET l == listKeys(ring, searchPattern_, fault, ses)
  IN [m_keys |-> IF Len(l.keys) = 0 THEN old
                 ELSE old \o [i \in DOMAIN l.keys |-> loadFromGPGMeKey(l.keys[i])],
      events |-> l.events]

\* GPGMeWrapper::loadKeys: the registry after the call and the backend
\* calls made; result is the local GPGOperationResult, dropped on return
loadKeys(old, ring, searchPattern_, fault, ses) ==
  LET cleared == <<>>
      l == listKeys(ring, searchPattern_, fault, ses)
      result == IF Len(l.keys) = 0
                THEN [GPGOperationResult EXCEPT !.errorMessage = MsgNoKeysFound]
                ELSE GPGOperationResult
  IN [m_keys |-> IF Len(l.keys) = 0 THEN cleared
                 ELSE cleared \o [i \in DOMAIN l.keys |-> loadFromGPGMeKey(l.keys[i])],
      events |-> l.events]

\* GPGMeWrapper::isPreferredKey: the scan of the mail addresses from it on
RECURSIVE isPreferredKeyFrom(_, _, _)
isPreferredKeyFrom(d_, mailAddress_, it) ==
  IF it > Len(mailAdresses(d_)) THEN FALSE
  ELSE IF contains(mailAdresses(d_)[it], mailAddress_) THEN TRUE
  ELSE isPreferredKeyFrom(d_, mailAddress_, it + 1)

\* isPreferredKey, comparing with == instead of contains()
isPreferredKey_exactMatch(d_, mailAddress_) ==
  \E it \in DOMAIN mailAdresses(d_) : mailAdresses(d_)[it] = mailAddress_

isPreferredKey(d_, mailAddress_) == isPreferredKeyFrom(d_, mailAddress_, 1)

\* selectKey without the break: every key with the fingerprint is selected
RECURSIVE selectKey_noBreak(_, _, _)
selectKey_noBreak(keys, fingerprint_, key) ==
  IF key > Len(keys) THEN [keyFound |-> FALSE, selectedKeys |-> <<>>]
  ELSE LET rest == selectKey_noBreak(keys, fingerprint_, key + 1)
       IN IF fromStdString(keys[key].fpr) = fingerprint_
          THEN [keyFound |-> TRUE, selectedKeys |-> <<keys[key]>> \o rest.selectedKeys]
          ELSE rest

\* The scan of encryptString for the first key with the given fingerprint,
\* from candidate key on: the flag and the selection it leaves
RECURSIVE selectKey(_, _, _)
selectKey(keys, fingerprint_, key) ==
  IF key > Len(keys) THEN [keyFound |-> FALSE, selectedKeys |-> <<>>]
  ELSE IF fromStdString(keys[key].fpr) = fingerprint_
    THEN [keyFound |-> TRUE, selectedKeys |-> <<keys[key]>>]
  ELSE selectKey(keys, fingerprint_, key + 1)

\* decryptString without the return after a failed key lookup
decryptString_noReturn(ring, inputString_, fingerprint_, fault, ses) ==
  LET result == GPGOperationResult
      fpr == toUtf8(fingerprint_)
      err == LookupError(ring, fpr)
      found == IF err # ErrNone
               THEN [result EXCEPT !.errorMessage =
                       MsgErrorFindingKey \o fromStdString(asString(err))]
               ELSE [result EXCEPT !.keyFound = TRUE]
      opened == <<Ev("createForProtocol", ses, <<>>), Ev("key", ses, fpr)>>
      length == size(inputString_)
      bar == toUtf8(inputString_)
      encryptedString == Data(bar, length)
      d_res == BackendDecrypt(ring, encryptedString, fault)
      decrypted == Append(opened, Ev("decrypt", ses, encryptedString))
      release == Ev("release", ses, <<>>)
  IN IF d_res.code = ErrNone
     THEN [result |-> [found EXCEPT !.decryptionSuccess = TRUE,
                                    !.resultString = fromStdString(d_res.out)],
           events |-> Append(decrypted, release)]
     ELSE [result |-> [found EXCEPT !.errorMessage =
                         found.errorMessage \o fromStdString(asString(d_res.code))],
           events |-> Append(decrypted, release)]

\* decryptString, converting the output buffer before it tests the error
decryptString_keepOutput(ring, inputString_, fingerprint_, fault, ses) ==
  LET result == GPGOperationResult
      fpr == toUtf8(fingerprint_)
      err == LookupError(ring, fpr)
      opened == <<Ev("createForProtocol", ses, <<>>), Ev("key", ses, fpr)>>
      length == size(inputString_)
      bar == toUtf8(inputString_)
      encryptedString == Data(bar, length)
      d_res == BackendDecrypt(ring, encryptedString, fault)
      decrypted == Append(opened, Ev("decrypt", ses, encryptedString))
      release == Ev("release", ses, <<>>)
  IN IF err # ErrNone
     THEN [result |-> [result EXCEPT !.errorMessage =
                         MsgErrorFindingKey \o fromStdString(asString(err))],
           events |-> Append(opened, release)]
     ELSE IF d_res.code = ErrNone
       THEN [result |-> [result EXCEPT !.keyFound = TRUE,
                                       !.decryptionSuccess = TRUE,
                                       !.resultString = fromStdString(d_res.out)],
             events |-> Append(decrypted, release)]
     ELSE [result |-> [result EXCEPT !.keyFound = TRUE,
                                     !.resultString = fromStdString(d_res.out),
                                     !.errorMessage =
                                       fromStdString(asString(d_res.code))],
           events |-> Append(decrypted, release)]

\* GPGMeWrapper::decryptString: the result and the backend calls made
decryptString(ring, inputString_, fingerprint_, fault, ses) ==
  LET result == GPGOperationResult
      fpr == toUtf8(fingerprint_)
      err == LookupError(ring, fpr)
      opened == <<Ev("createForProtocol", ses, <<>>), Ev("key", ses, fpr)>>
      length == size(inputString_)
      bar == toUtf8(inputString_)
      encryptedString == Data(bar, length)
      d_res == BackendDecrypt(ring, encryptedString, fault)
      decrypted == Append(opened, Ev("decrypt", ses, encryptedString))
      release == Ev("release", ses, <<>>)
  IN IF err # ErrNone
     THEN [result |-> [result EXCEPT !.errorMessage =
                         MsgErrorFindingKey \o fromStdString(asString(err))],
           events |-> Append(opened, release)]
     ELSE IF d_res.code = ErrNone
       THEN [result |-> [result EXCEPT !.keyFound = TRUE,
                                       !.decryptionSuccess = TRUE,
                                       !.resultString = fromStdString(d_res.out)],
             events |-> Append(decrypted, release)]
     ELSE [result |-> [result EXCEPT !.keyFound = TRUE,
                                     !.errorMessage =
                                       fromStdString(asString(d_res.code))],
           events |-> Append(decrypted, release)]

\* GPGMeWrapper::encryptString: the result and the backend calls made.  The
\* listing uses the session ses, the encryption the next one.
encryptString(ring, inputString_, fingerprint_, recipientMail_, symmetricEncryption_, listFault, fault, ses) ==
  LET l == listKeys(ring, recipientMail_, listFault, ses)
      sel == selectKey(l.keys, fingerprint_, 1)
      result == [GPGOperationResult EXCEPT !.keyFound = sel.keyFound]
      ctx == ses + 1
      length == size(inputString_)
      bar == toUtf8(inputString_)
      plainTextData == Data(bar, length)
      opened == Append(l.events, Ev("createForProtocol", ctx, <<>>))
      release == Ev("release", ctx, <<>>)
  IN IF symmetricEncryption_
     THEN LET enc == BackendEncrypt(<<>>, plainTextData, fault)
              called == Append(opened,
                               Ev("encryptSymmetrically", ctx, plainTextData))
          IN IF enc.code = ErrNone
             THEN [result |-> [result EXCEPT !.decryptionSuccess = TRUE,
                                             !.resultString = fromStdString(enc.out)],
                   events |-> Append(called, release)]
             ELSE [result |-> [result EXCEPT !.resultString =
                                 MsgSymmetricError \o fromStdString(asString(enc.code))],
                   events |-> Append(called, release)]
     ELSE LET enRes == BackendEncrypt(sel.selectedKeys, plainTextData, fault)
              called == Append(opened,
                               Ev("encrypt", ctx, <<sel.selectedKeys, plainTextData>>))
          IN IF enRes.code = ErrNone
             THEN [result |-> [result EXCEPT !.decryptionSuccess = TRUE,
                                             !.resultString = fromStdString(enRes.out)],
                   events |-> Append(called, release)]
             ELSE [result |-> [result EXCEPT !.errorMessage =
                                 MsgEncryptionFailed \o fromStdString(asString(enRes.code))],
                   events |-> Append(called, release)]

(***************************************************************************)
(* The wrapper as a state machine: one action per method.                  *)
(***************************************************************************)
VARIABLES
  ring,      \* the backend's key ring
  m_keys,    \* GPGMeWrapper::m_keys
  call,      \* the last call: method, arguments, value returned
  events,    \* the backend calls of the last call, in order
  open       \* the backend sessions created and not released

vars == <<ring, m_keys, call, events, open>>

\* Inputs of the calls
Fingerprints == {fromStdString(FprF1), fromStdString(FprF2)}
Patterns == {<<>>, fromStdString(MailAB), fromStdString(MailCB)}
Recipients == {fromStdString(MailAB), fromStdString(MailCB)}
BackendFaults == {ErrNone, ErrGeneral}

\* encryptString is called with every text for the recipient "a@b" on a
\* backend without error, and with the text "a" for every recipient and on
\* every error of the backend
EncryptInputs ==
  {x \in [inputString_ : Texts, fingerprint_ : Fingerprints,
          recipientMail_ : Recipients, symmetricEncryption_ : BOOLEAN,
          listFault : ListingFaults, fault : BackendFaults] :
     \/ /\ x.recipientMail_ = fromStdString(MailAB)
        /\ x.listFault = NoListingFault
        /\ x.fault = ErrNone
     \/ x.inputString_ = <<97>>}

\* decryptString is called with every text and with two armored messages:
\* "a" for the first key, and the empty text under a passphrase
CipherTexts ==
  {fromStdString(Armor(<<KeyUniverse[1]>>, toUtf8(<<97>>))),
   fromStdString(Armor(<<>>, <<>>))}
DecryptInputs ==
  [inputString_ : Texts \cup CipherTexts, fingerprint_ : Fingerprints,
   fault : BackendFaults]

\* "a@b", "A@b", "@b", "", "c"
MailQueries == {<<97, 64, 98>>, <<65, 64, 98>>, <<64, 98>>, <<>>, <<99>>}
DetailsInputs ==
  {[fingerPrint |-> fromStdString(FprF1), mailAdresses |-> m] :
     m \in {<<>>, <<<<97, 64, 98>>>>, <<<<99>>, <<97, 64, 98>>>>, <<<<>>>>}}

\* the sessions a sequence of backend calls leaves open
StillOpen(evs) ==
  {evs[i].ses : i \in {j \in DOMAIN evs :
      /\ evs[j].op = "createForProtocol"
      /\ \A k \in (j + 1)..Len(evs) :
           ~(evs[k].op = "release" /\ evs[k].ses = evs[j].ses)}}

NoSource == [op |-> "none"]

\* GPGMeWrapper::GPGMeWrapper(): loadKeys("")
Init ==
  \E r \in KeyRings, f \in ListingFaults :
  \E l \in {loadKeys(<<>>, r, <<>>, f, 1)} :
       /\ ring = r
       /\ m_keys = l.m_keys
       /\ call = [op |-> "GPGMeWrapper",
                  in |-> [searchPattern_ |-> <<>>, listFault |-> f],
                  res |-> <<>>, source |-> NoSource]
       /\ events = l.events
       /\ open = StillOpen(l.events)

ListKeys ==
  \E p \in Patterns, f \in ListingFaults :
  \E l \in {listKeys(ring, p, f, 1)} :
       /\ call' = [op |-> "listKeys", in |-> [searchPattern_ |-> p, listFault |-> f],
                   res |-> l.keys, source |-> NoSource]
       /\ events' = l.events
       /\ open' = open \cup StillOpen(l.events)
       /\ UNCHANGED <<ring, m_keys>>

\* source holds the registry the call found
LoadKeys ==
  \E p \in Patterns, f \in ListingFaults :
  \E l \in {loadKeys(m_keys, ring, p, f, 1)} :
       /\ m_keys' = l.m_keys
       /\ call' = [op |-> "loadKeys", in |-> [searchPattern_ |-> p, listFault |-> f],
                   res |-> <<>>, source |-> [op |-> "registry", m_keys |-> m_keys]]
       /\ events' = l.events
       /\ open' = open \cup StillOpen(l.events)
       /\ UNCHANGED ring

IsPreferredKey ==
  \E d \in DetailsInputs \cup {m_keys[i] : i \in DOMAIN m_keys}, m \in MailQueries :
    /\ call' = [op |-> "isPreferredKey", in |-> [d_ |-> d, mailAddress_ |-> m],
                res |-> isPreferredKey(d, m), source |-> NoSource]
    /\ events' = <<>>
    /\ UNCHANGED <<ring, m_keys, open>>

EncryptString ==
  \E x \in EncryptInputs :
  \E e \in {encryptString(ring, x.inputString_, x.fingerprint_, x.recipientMail_,
                         x.symmetricEncryption_, x.listFault, x.fault, 1)} :
       /\ call' = [op |-> "encryptString", in |-> x, res |-> e.result,
                   source |-> NoSource]
       /\ events' = e.events
       /\ open' = open \cup StillOpen(e.events)
       /\ UNCHANGED <<ring, m_keys>>

\* decryptString on a text of the caller's
DecryptString ==
  \E x \in DecryptInputs :
  \E d \in {decryptString(ring, x.inputString_, x.fingerprint_, x.fault, 1)} :
       /\ call' = [op |-> "decryptString", in |-> x, res |-> d.result,
                   source |-> NoSource]
       /\ events' = d.events
       /\ open' = open \cup StillOpen(d.events)
       /\ UNCHANGED <<ring, m_keys>>

\* decryptString on the payload the preceding encryptString returned; source
\* holds the arguments and the result of that call
DecryptResult ==
  \E fp \in Fingerprints, f \in BackendFaults :
    /\ call.op = "encryptString"
    /\ \E x \in {[inputString_ |-> call.res.resultString, fingerprint_ |-> fp,
                  fault |-> f]} :
       \E d \in {decryptString(ring, x.inputString_, fp, f, 1)} :
          /\ call' = [op |-> "decryptString", in |-> x, res |-> d.result,
                      source |-> [op |-> "encryptString",
                                  inputString_ |-> call.in.inputString_,
                                  fingerprint_ |-> call.in.fingerprint_,
                                  recipientMail_ |-> call.in.recipientMail_,
                                  symmetricEncryption_ |-> call.in.symmetricEncryption_,
                                  res |-> call.res]]
          /\ events' = d.events
          /\ open' = open \cup StillOpen(d.events)
    /\ UNCHANGED <<ring, m_keys>>

\* A constructed wrapper that encrypts, and decrypts what it encrypted
Next ==
  \/ EncryptString
  \/ DecryptResult

Spec == Init /\ [][Next]_vars

\* A constructed wrapper that reloads its keys and decrypts
NextDecrypt ==
  \/ LoadKeys
  \/ DecryptString

SpecDecrypt == Init /\ [][NextDecrypt]_vars

\* The key discovery calls of a constructed wrapper
NextKeys ==
  \/ ListKeys
  \/ LoadKeys
  \/ IsPreferredKey

SpecKeys == Init /\ [][NextKeys]_vars

\* GPGMeWrapper::getKeys(), getNumKeys()
getKeys == m_keys
getNumKeys == Len(m_keys)

(***************************************************************************)
(* Properties.                                                             *)
(***************************************************************************)
IsCrypto == call.op \in {"encryptString", "decryptString"}

\* the positions of the backend calls op in events
Calls(op) == {i \in DOMAIN events : events[i].op = op}

\* C1: encryptString with symmetric = true issues no key listing and no key
\* lookup to the backend, and returns keyFound = false.
C1_SymmetricSkipsKeyResolution ==
  (call.op = "encryptString" /\ call.in.symmetricEncryption_)
    => /\ Calls("startKeyListing") = {}
       /\ Calls("nextKey") = {}
       /\ Calls("key") = {}
       /\ call.res.keyFound = FALSE

\* C2: decryptString, given the payload of an asymmetric encryptString that
\* found the key, and the same fingerprint, returns the text encrypted.
C2_RoundTrip ==
  (/\ call.op = "decryptString"
   /\ call.source.op = "encryptString"
   /\ ~call.source.symmetricEncryption_
   /\ call.source.res.keyFound
   /\ call.source.res.decryptionSuccess
   /\ call.in.fingerprint_ = call.source.fingerprint_
   /\ call.res.decryptionSuccess)
    => call.res.resultString = call.source.inputString_

\* C3: a failed encryptString or decryptString returns success = false, a
\* non-empty error message, and no error text in the payload.
C3_FailureInErrorMessage ==
  (IsCrypto /\ ~call.res.decryptionSuccess)
    => /\ call.res.errorMessage # <<>>
       /\ call.res.resultString = <<>>

\* s is a part of t: t = pre \o s \o post for some pre and post
IsSubstring(s, t) ==
  \E k \in 0..Len(t) :
    /\ k + Len(s) <= Len(t)
    /\ \A j \in 1..Len(s) : t[k + j] = s[j]

Min(S) == CHOOSE n \in S : \A m \in S : n <= m

\* C4: decryptString with a fingerprint the backend's key lookup fails on
\* returns keyFound = false, success = false, a non-empty error message and
\* an empty payload, and does not call the backend's decrypt.
C4_DecryptKeyNotFound ==
  (/\ call.op = "decryptString"
   /\ LookupError(ring, toUtf8(call.in.fingerprint_)) # ErrNone)
    => /\ call.res.keyFound = FALSE
       /\ call.res.decryptionSuccess = FALSE
       /\ call.res.errorMessage # <<>>
       /\ call.res.resultString = <<>>
       /\ Calls("decrypt") = {}

\* a failed lookup on a message the backend can decrypt, with a registry that
\* holds keys
C4_Witness ==
  /\ call.op = "decryptString"
  /\ LookupError(ring, toUtf8(call.in.fingerprint_)) # ErrNone
  /\ call.in.inputString_ = fromStdString(Armor(<<>>, <<>>))
  /\ call.in.fault = ErrNone
  /\ m_keys # <<>>

\* C5: after loadKeys(P) (the constructor is loadKeys("")) the registry holds
\* one KeyDetails per key of listKeys(P), in the same order, and nothing else:
\* getNumKeys() is the length of listKeys(P).
C5_RegistryIsLastLoad ==
  (call.op \in {"loadKeys", "GPGMeWrapper"})
    => LET keys == listKeys(ring, call.in.searchPattern_, call.in.listFault, 1).keys
       IN /\ getNumKeys = Len(keys)
          /\ \A i \in 1..Len(keys) : getKeys[i] = loadFromGPGMeKey(keys[i])

\* a load that finds keys, on a registry that held other keys
C5_Witness ==
  /\ call.op = "loadKeys"
  /\ call.source.m_keys # <<>>
  /\ m_keys # <<>>
  /\ m_keys # call.source.m_keys

\* C6: isPreferredKey(details, mail) is true exactly when mail is a part of
\* one of the mail addresses of details, compared character by character.
C6_IsPreferredKey ==
  (call.op = "isPreferredKey")
    => (call.res <=> \E i \in DOMAIN call.in.d_.mailAdresses :
                       IsSubstring(call.in.mailAddress_, call.in.d_.mailAdresses[i]))

\* a true answer for a proper part of the second address only
C6_Witness ==
  /\ call.op = "isPreferredKey"
  /\ call.res = TRUE
  /\ Len(call.in.d_.mailAdresses) = 2
  /\ call.in.mailAddress_ # <<>>
  /\ ~IsSubstring(call.in.mailAddress_, call.in.d_.mailAdresses[1])
  /\ call.in.mailAddress_ # call.in.d_.mailAdresses[2]

\* the candidates of an asymmetric encryptString and those with its fingerprint
Candidates == listKeys(ring, call.in.recipientMail_, call.in.listFault, 1).keys
Matching ==
  {i \in DOMAIN Candidates : fromStdString(Candidates[i].fpr) = call.in.fingerprint_}

\* C7: an asymmetric encryptString calls the backend's encrypt once, with the
\* first candidate of listKeys(recipientMail) that has the fingerprint, or
\* with no key when there is none; keyFound tells which.
C7_RecipientSelection ==
  (call.op = "encryptString" /\ ~call.in.symmetricEncryption_)
    => /\ Cardinality(Calls("encrypt")) = 1
       /\ \A i \in Calls("encrypt") :
            LET selectedKeys == events[i].arg[1]
            IN /\ selectedKeys = IF Matching = {} THEN <<>>
                                 ELSE <<Candidates[Min(Matching)]>>
               /\ Len(selectedKeys) <= 1
               /\ call.res.keyFound <=> selectedKeys # <<>>

\* two candidates carry the fingerprint
C7_Witness ==
  /\ call.op = "encryptString"
  /\ ~call.in.symmetricEncryption_
  /\ Cardinality(Matching) = 2
  /\ call.res.keyFound

\* C8: listKeys returns the keys the stream delivers before its first
\* end-of-results or error signal, in order, and stops reading there; it
\* returns no key and reads nothing when the listing fails to start.
C8_ListKeysPrefix ==
  (call.op = "listKeys")
    => LET stream == Stream(ring, toUtf8(call.in.searchPattern_), call.in.listFault)
           first == Min({i \in DOMAIN stream : stream[i].code # ErrNone})
       IN IF call.in.listFault.startErr # ErrNone
          THEN call.res = <<>> /\ Calls("nextKey") = {}
          ELSE /\ Len(call.res) = first - 1
               /\ \A i \in 1..(first - 1) : call.res[i] = stream[i].key
               /\ Cardinality(Calls("nextKey")) = first

\* an error in the middle of the stream, after a key
C8_Witness ==
  /\ call.op = "listKeys"
  /\ call.res # <<>>
  /\ \E i \in Calls("nextKey") : events[i].arg = ErrGeneral

\* C9: no session is open after a call, and every backend call of a call
\* uses a session that the call created before and has not released yet.
C9_SessionsScoped ==
  /\ open = {}
  /\ \A i \in DOMAIN events :
       IF events[i].op = "createForProtocol"
       THEN \A j \in 1..(i - 1) : events[j].ses # events[i].ses
       ELSE \E j \in 1..(i - 1) :
              /\ events[j].op = "createForProtocol"
              /\ events[j].ses = events[i].ses
              /\ \A k \in (j + 1)..(i - 1) :
                   ~(events[k].op = "release" /\ events[k].ses = events[i].ses)

\* an encryptString whose listing fails to start and whose encryption fails
C9_Witness ==
  /\ call.op = "encryptString"
  /\ call.in.listFault.startErr # ErrNone
  /\ ~call.res.decryptionSuccess
  /\ Cardinality(Calls("createForProtocol")) = 2
  /\ Cardinality(Calls("release")) = 2

\* C10: once the key is resolved, decryptString returns keyFound = true and
\* either success with the whole output buffer as payload and no error
\* message, or failure with the backend's error string and no payload.
C10_DecryptResultConsistent ==
  (call.op = "decryptString")
    => /\ call.res.decryptionSuccess => call.res.keyFound
       /\ \A i \in Calls("decrypt") :
            LET d_res == BackendDecrypt(ring, events[i].arg, call.in.fault)
            IN /\ LookupError(ring, toUtf8(call.in.fingerprint_)) = ErrNone
               /\ call.res.keyFound
               /\ IF d_res.code = ErrNone
                  THEN /\ call.res.decryptionSuccess
                       /\ call.res.errorMessage = <<>>
                       /\ call.res.resultString = fromStdString(d_res.out)
                  ELSE /\ ~call.res.decryptionSuccess
                       /\ call.res.errorMessage = fromStdString(asString(d_res.code))
                       /\ call.res.resultString = <<>>
       /\ (LookupError(ring, toUtf8(call.in.fingerprint_)) = ErrNone)
            => Calls("decrypt") # {}

\* a decrypt error that leaves bytes in the output buffer
C10_Witness ==
  /\ call.op = "decryptString"
  /\ call.res.keyFound
  /\ ~call.res.decryptionSuccess
  /\ \E i \in Calls("decrypt") :
       BackendDecrypt(ring, events[i].arg, call.in.fault).out # <<>>

====
